---------------------------- MODULE Spec2Model ----------------------------
(***************************************************************************)
(* Model of building_processor_tool.py: the BuildingProcessor tool         *)
(* (isLicensed / execute) and the six-stage pipeline process_las_dataset.  *)
(*                                                                         *)
(* The file system is the set fs of paths that exist.  The six external    *)
(* routines (scripts.*.run, FocalStatistics) are opaque: a call may write  *)
(* or, because overwriteOutput is on, remove any of the outputs it was     *)
(* asked for, and may return or raise.  Each tool invocation is a process  *)
(* r with its own program counter, message log and arcpy.env.              *)
(***************************************************************************)
EXTENDS Integers, Sequences, FiniteSets

VARIABLES
    fs,        \* the paths that exist (shared by all invocations)
    desc,      \* what arcpy.Describe(las_dataset_path) reports
    pc,        \* pc[r]: position of invocation r in the code
    runNo,     \* runNo[r]: how many times process r has invoked the tool
    result,    \* result[r]: "none", or the value process_las_dataset returned
    exc,       \* exc[r]: the exception in flight ("none" when there is none)
    failed,    \* failed[r]: the stage whose try block raised (0: none)
    invoked,   \* invoked[r]: stages whose external routine has been called
    passed,    \* passed[r]: stages whose output existence check has passed
    created,   \* created[r]: workspaces this invocation created
    msgs,      \* msgs[r]: the geoprocessing message log, in order
    env,       \* env[r]: arcpy.env of the invocation
    lic,       \* lic[r]: the Spatial extension: "none", "checked_out",
               \* "checked_in", or "checkin_failed" (still checked out)
    prevFs,    \* the paths that existed when the previous invocation ended
    prevResult,\* what the previous invocation's process_las_dataset returned
    wrote,     \* wrote[r]: the paths the routine r called last has written
    turn,      \* the process that took the last step (0: none yet)
    switches   \* how often the processor went from one process to the other

vars == <<fs, desc, pc, runNo, result, exc, failed, invoked, passed, created,
          msgs, env, lic, prevFs, prevResult, wrote, turn, switches>>

\* Tool invocations that may be in progress at once.
Procs == {1, 2}

\* How many times in sequence one process invokes the tool.
MaxRuns == 2

\* How many times two concurrent invocations may be switched between.
MaxSwitches == 3

--------------------------------------------------------------------------
\* Paths.  One dataset, one home directory, one output directory.

las_dataset_path == "las_dataset"
home_directory   == "home_directory"
output_directory == "output_directory"
intermediate_ws  == "Intermediate.gdb"
project_ws       == "lasd_processing.gdb"
mosaic_folder    == "lasd_mosaic_rasters"
roof_segments_folder == "home/roof_forms"

Workspaces == {intermediate_ws, project_ws}

\* Everything addressed inside project_ws.
Artifacts == {"elev_dtm", "elev_dsm", "elev_ndsm", "building_mosaic",
              "focal_mosaic", "final_footprints", "roof_segments",
              "roof_segments_segmented", "roof_forms", "roof_forms_roofform"}

Stages == 1..6

\* The paths the routine of each stage is asked to write.
Outputs(k) ==
    CASE k = 1 -> {"elev_dtm", "elev_dsm", "elev_ndsm"}
      [] k = 2 -> {"building_mosaic"}
      [] k = 3 -> {"focal_mosaic"}
      [] k = 4 -> {"final_footprints"}
      [] k = 5 -> {"roof_segments", "roof_segments_segmented"}
      [] k = 6 -> {"roof_forms", "roof_forms_roofform"}

StageName(k) ==
    CASE k = 1 -> "elevation extraction"
      [] k = 2 -> "building mosaic creation"
      [] k = 3 -> "Focal Statistics"
      [] k = 4 -> "footprints creation"
      [] k = 5 -> "roof segmentation"
      [] k = 6 -> "roof form extraction"

\* arcpy.Exists / os.path.exists
Exists(f, path) == path \in f

--------------------------------------------------------------------------
\* Messages: <<severity, text>>.

Msg(t)  == <<"message", t>>
Warn(t) == <<"warning", t>>
Err(t)  == <<"error", t>>

Exceptions == {"Exception", "ExecuteError"}

--------------------------------------------------------------------------
\* Pure functions of the source.

\* A variant that treats a wrong data type as advisory.
check_building_class_code_advisory(describe, dataType) ==
    IF describe = "raises"
    THEN [ret  |-> TRUE,
          msgs |-> <<Warn("Error checking LAS dataset"),
                     Msg("Continuing processing despite validation check failure...")>>]
    ELSE IF dataType # "LasDataset"
    THEN [ret  |-> TRUE,
          msgs |-> <<Err("Input is not a valid LAS dataset")>>]
    ELSE [ret  |-> TRUE,
          msgs |-> <<Msg("LAS Dataset information:"), Msg("  - Point count"),
                     Msg("  - File count")>>]

\* A variant whose except clause rejects the dataset.
check_building_class_code_strict(describe, dataType) ==
    IF describe = "raises"
    THEN [ret  |-> FALSE,
          msgs |-> <<Warn("Error checking LAS dataset")>>]
    ELSE IF dataType # "LasDataset"
    THEN [ret  |-> FALSE,
          msgs |-> <<Err("Input is not a valid LAS dataset")>>]
    ELSE [ret  |-> TRUE,
          msgs |-> <<Msg("LAS Dataset information:"), Msg("  - Point count"),
                     Msg("  - File count")>>]

\* check_building_class_code: describe is "ok" or "raises".
check_building_class_code(describe, dataType) ==
    IF describe = "raises"
    THEN [ret  |-> TRUE,
          msgs |-> <<Warn("Error checking LAS dataset"),
                     Msg("Continuing processing despite validation check failure...")>>]
    ELSE IF dataType # "LasDataset"
    THEN [ret  |-> FALSE,
          msgs |-> <<Err("Input is not a valid LAS dataset")>>]
    ELSE [ret  |-> TRUE,
          msgs |-> <<Msg("LAS Dataset information:"), Msg("  - Point count"),
                     Msg("  - File count")>>]

possible_names == <<"roof_forms", "roof_forms_roofform">>

\* A variant that probes only the requested name.
validate_roof_forms_first(f) ==
    IF Exists(f, possible_names[1])
    THEN [ret |-> TRUE,
          msgs |-> <<Msg("Found roof forms output at: " \o possible_names[1])>>]
    ELSE [ret |-> FALSE, msgs |-> <<>>]

\* validate_roof_forms: the first candidate that exists decides.
validate_roof_forms(f) ==
    LET found == {i \in DOMAIN possible_names : Exists(f, possible_names[i])}
    IN  IF found = {}
        THEN [ret |-> FALSE, msgs |-> <<>>]
        ELSE LET i == CHOOSE j \in found : \A m \in found : j <= m
             IN  [ret |-> TRUE,
                  msgs |-> <<Msg("Found roof forms output at: " \o possible_names[i])>>]

\* arcpy.CreateFileGDB_management: a new, empty geodatabase.  Creating the
\* project geodatabase over an existing one replaces it and its contents.
CreateFileGDB(f, gdb) ==
    IF gdb = project_ws THEN (f \ Artifacts) \cup {gdb} ELSE f \cup {gdb}

\* What an external routine leaves behind: it wrote `made` and, overwriting,
\* removed `gone`; nothing else is touched.
RoutineEffect(f, made, gone) == (f \ gone) \cup made

--------------------------------------------------------------------------
TypeOK ==
    /\ fs \subseteq {las_dataset_path, home_directory, output_directory,
                     mosaic_folder, roof_segments_folder} \cup Workspaces \cup Artifacts
    /\ desc \in [dataType : {"LasDataset", "Other"}, spatialReference : {"SR", "None"}]
    /\ runNo \in [Procs -> 0..MaxRuns]
    /\ result \in [Procs -> {"none", "True", "False"}]
    /\ \A r \in Procs : exc[r] \in STRING
    /\ failed \in [Procs -> 0..6]
    /\ invoked \in [Procs -> SUBSET Stages]
    /\ passed \in [Procs -> SUBSET Stages]
    /\ created \in [Procs -> SUBSET Workspaces]
    /\ lic \in [Procs -> {"none", "checked_out", "checked_in", "checkin_failed"}]
    /\ prevFs \subseteq fs \cup Artifacts
    /\ prevResult \in {"none", "True", "False"}
    /\ wrote \in [Procs -> SUBSET Artifacts]
    /\ turn \in Procs \cup {0}
    /\ switches \in 0..MaxSwitches

EnvInit == [overwriteOutput |-> FALSE, workspace |-> "default",
            scratchWorkspace |-> "default", cellSize |-> "default",
            outputCoordinateSystem |-> "default"]

Init ==
    /\ fs \in SUBSET {las_dataset_path, home_directory, output_directory}
    /\ desc \in [dataType : {"LasDataset", "Other"}, spatialReference : {"SR", "None"}]
    /\ pc = [r \in Procs |-> "idle"]
    /\ runNo = [r \in Procs |-> 0]
    /\ result = [r \in Procs |-> "none"]
    /\ exc = [r \in Procs |-> "none"]
    /\ failed = [r \in Procs |-> 0]
    /\ invoked = [r \in Procs |-> {}]
    /\ passed = [r \in Procs |-> {}]
    /\ created = [r \in Procs |-> {}]
    /\ msgs = [r \in Procs |-> <<>>]
    /\ env = [r \in Procs |-> EnvInit]
    /\ lic = [r \in Procs |-> "none"]
    /\ prevFs = {}
    /\ prevResult = "none"
    /\ wrote = [r \in Procs |-> {}]
    /\ turn = 0
    /\ switches = 0

--------------------------------------------------------------------------
\* Building blocks of the actions.

Goto(r, p)    == pc' = [pc EXCEPT ![r] = p]
Log(r, ms)    == msgs' = [msgs EXCEPT ![r] = @ \o ms]
NoLog         == UNCHANGED msgs
Data          == <<desc, runNo, prevFs, prevResult>>
Hist          == <<invoked, passed, created>>

\* Positions at which a run reads or writes the shared file system next:
\* only there does it matter that the other run gets in between.
Interruptible ==
    {"int_check", "int_create", "proj_check", "proj_create", "validity"}
       \cup {"s1_begin", "s2_begin", "s3_begin", "s4_begin", "s5_begin", "s6_begin"}
       \cup {"s1_run", "s2_run", "s3_run", "s4_run", "s5_run", "s6_run"}
       \cup {"s1_check", "s2_check", "s3_check", "s4_check", "s5_check", "s6_check"}

\* The operating system's scheduler: process 1 is started first (the two
\* are alike), and a running process is pre-empted at most MaxSwitches
\* times in all.
Schedule(r) ==
    /\ turn' = r
    /\ turn = 0 => r = 1
    /\ IF turn \in {0, r}
       THEN switches' = switches
       ELSE /\ switches < MaxSwitches
            /\ switches' = switches + 1
            /\ pc[turn] \in Interruptible

\* return <value> from process_las_dataset: control is back in execute.
Return(r, v)  == /\ result' = [result EXCEPT ![r] = v]
                 /\ Goto(r, "report")

\* A variant in which the stages have no handler of their own: the exception
\* travels to the handlers around process_las_dataset.
RaiseInStage_uncaught(r, k, e) ==
    /\ exc' = [exc EXCEPT ![r] = e]
    /\ failed' = [failed EXCEPT ![r] = k]
    /\ Goto(r, "outer_except")

\* An exception raised inside the try block of stage k.
RaiseInStage(r, k, e) ==
    /\ exc' = [exc EXCEPT ![r] = e]
    /\ failed' = [failed EXCEPT ![r] = k]
    /\ Goto(r, "stage_except")

\* An exception raised in process_las_dataset outside every stage.
RaiseOuter(r, e) ==
    /\ exc' = [exc EXCEPT ![r] = e]
    /\ Goto(r, "outer_except")

--------------------------------------------------------------------------
\* BuildingProcessor: the tool's life cycle.  The geoprocessing framework
\* calls isLicensed and, only when it answers True, execute.

\* isLicensed: check is "Available", "Unavailable", or "raises".
isLicensed(r) ==
    /\ pc[r] = "idle"
    /\ Schedule(r)
    /\ runNo[r] < MaxRuns
    /\ runNo' = [runNo EXCEPT ![r] = @ + 1]
    /\ \E check \in {"Available", "Unavailable", "raises"} :
          IF check = "Available"
          THEN /\ lic' = [lic EXCEPT ![r] = "checked_out"]     \* CheckOutExtension
               /\ Goto(r, "execute")
          ELSE /\ UNCHANGED lic
               /\ Goto(r, "unlicensed")
    /\ UNCHANGED <<fs, desc, result, exc, failed, Hist, msgs, env, prevFs, prevResult, wrote>>

\* execute, up to the call of process_las_dataset: reading the parameters.
execute(r) ==
    /\ pc[r] = "execute"
    /\ Schedule(r)
    /\ \E params \in {"ok", "Exception"} :
          IF params = "ok"
          THEN Goto(r, "validate") /\ UNCHANGED exc
          ELSE /\ exc' = [exc EXCEPT ![r] = params]
               /\ Goto(r, "execute_except")
    /\ UNCHANGED <<fs, Data, result, failed, Hist, msgs, env, lic, wrote>>

\* A variant without the finally clause: only a successful run gets to
\* the check-in.
executeReport_noFinally(r) ==
    /\ pc[r] = "report"
    /\ Schedule(r)
    /\ IF result[r] = "True"
       THEN Log(r, <<Msg("Processing completed successfully")>>) /\ Goto(r, "finally")
       ELSE Log(r, <<Err("Processing failed - check messages above")>>)
            /\ Goto(r, "finished")
    /\ UNCHANGED <<fs, Data, result, exc, failed, Hist, env, lic, wrote>>

\* A variant that announces success before it looks at the result.
executeReport_eager(r) ==
    /\ pc[r] = "report"
    /\ Schedule(r)
    /\ IF result[r] = "True"
       THEN Log(r, <<Msg("Processing completed successfully")>>)
       ELSE Log(r, <<Msg("Processing completed successfully"),
                     Err("Processing failed - check messages above")>>)
    /\ Goto(r, "finally")
    /\ UNCHANGED <<fs, Data, result, exc, failed, Hist, env, lic, wrote>>

\* execute, after process_las_dataset returned: the terminal message.
executeReport(r) ==
    /\ pc[r] = "report"
    /\ Schedule(r)
    /\ IF result[r] = "True"
       THEN Log(r, <<Msg("Processing completed successfully")>>)
       ELSE Log(r, <<Err("Processing failed - check messages above")>>)
    /\ Goto(r, "finally")
    /\ UNCHANGED <<fs, Data, result, exc, failed, Hist, env, lic, wrote>>

\* execute's except clauses.
executeExcept(r) ==
    /\ pc[r] = "execute_except"
    /\ Schedule(r)
    /\ IF exc[r] = "ExecuteError"
       THEN Log(r, <<Err("GetMessages(2)")>>)
       ELSE Log(r, <<Err("An unexpected error occurred: " \o exc[r])>>)
    /\ exc' = [exc EXCEPT ![r] = "none"]
    /\ Goto(r, "finally")
    /\ UNCHANGED <<fs, Data, result, failed, Hist, env, lic, wrote>>

\* execute's finally clause: CheckInExtension inside try / except: pass.
executeFinally(r) ==
    /\ pc[r] = "finally"
    /\ Schedule(r)
    /\ \E checkin \in {"ok", "raises"} :
          IF checkin = "ok"
          THEN lic' = [lic EXCEPT ![r] = "checked_in"]
          ELSE lic' = [lic EXCEPT ![r] = "checkin_failed"]   \* except: pass
    /\ Goto(r, "finished")
    /\ UNCHANGED <<fs, Data, result, exc, failed, Hist, msgs, env, wrote>>

\* The user runs the tool again: a fresh invocation in the same process.
Rerun(r) ==
    /\ pc[r] \in {"finished", "unlicensed"}
    /\ Schedule(r)
    /\ runNo[r] < MaxRuns
    /\ prevFs' = fs
    /\ prevResult' = result[r]
    /\ wrote' = [wrote EXCEPT ![r] = {}]
    /\ pc' = [pc EXCEPT ![r] = "idle"]
    /\ result' = [result EXCEPT ![r] = "none"]
    /\ exc' = [exc EXCEPT ![r] = "none"]
    /\ failed' = [failed EXCEPT ![r] = 0]
    /\ invoked' = [invoked EXCEPT ![r] = {}]
    /\ passed' = [passed EXCEPT ![r] = {}]
    /\ created' = [created EXCEPT ![r] = {}]
    /\ msgs' = [msgs EXCEPT ![r] = <<>>]
    /\ env' = [env EXCEPT ![r] = EnvInit]
    /\ UNCHANGED <<fs, desc, runNo, lic>>

--------------------------------------------------------------------------
\* process_las_dataset: input validation and workspaces.

\* A variant that does not check the output directory.
ValidateInputs_noOutputCheck(r) ==
    /\ pc[r] = "validate"
    /\ Schedule(r)
    /\ env' = [env EXCEPT ![r].overwriteOutput = TRUE]
    /\ IF ~Exists(fs, las_dataset_path)
       THEN Log(r, <<Err("LAS dataset does not exist")>>) /\ Return(r, "False")
       ELSE IF ~Exists(fs, home_directory)
       THEN Log(r, <<Err("Home directory does not exist")>>) /\ Return(r, "False")
       ELSE NoLog /\ Goto(r, "int_check") /\ UNCHANGED result
    /\ UNCHANGED <<fs, Data, exc, failed, Hist, lic, wrote>>

\* Lines 53-66: overwrite flag, then the three existence checks.
ValidateInputs(r) ==
    /\ pc[r] = "validate"
    /\ Schedule(r)
    /\ env' = [env EXCEPT ![r].overwriteOutput = TRUE]
    /\ IF ~Exists(fs, las_dataset_path)
       THEN Log(r, <<Err("LAS dataset does not exist")>>) /\ Return(r, "False")
       ELSE IF ~Exists(fs, home_directory)
       THEN Log(r, <<Err("Home directory does not exist")>>) /\ Return(r, "False")
       ELSE IF ~Exists(fs, output_directory)
       THEN Log(r, <<Err("Output directory does not exist")>>) /\ Return(r, "False")
       ELSE NoLog /\ Goto(r, "int_check") /\ UNCHANGED result
    /\ UNCHANGED <<fs, Data, exc, failed, Hist, lic, wrote>>

\* A variant that creates the Intermediate geodatabase on every run.
CheckIntermediate_always(r) ==
    /\ pc[r] = "int_check"
    /\ Schedule(r)
    /\ Goto(r, "int_create")
    /\ UNCHANGED <<fs, Data, result, exc, failed, Hist, msgs, env, lic, wrote>>

\* Line 70: if not arcpy.Exists(intermediate_ws)
CheckIntermediate(r) ==
    /\ pc[r] = "int_check"
    /\ Schedule(r)
    /\ IF Exists(fs, intermediate_ws)
       THEN Goto(r, "proj_check")
       ELSE Goto(r, "int_create")
    /\ UNCHANGED <<fs, Data, result, exc, failed, Hist, msgs, env, lic, wrote>>

\* Line 71: arcpy.CreateFileGDB_management(output_directory, "Intermediate")
CreateIntermediate(r) ==
    /\ pc[r] = "int_create"
    /\ Schedule(r)
    /\ \E out \in {"ok", "ExecuteError"} :
          IF out = "ok"
          THEN /\ fs' = CreateFileGDB(fs, intermediate_ws)
               /\ created' = [created EXCEPT ![r] = @ \cup {intermediate_ws}]
               /\ Goto(r, "proj_check")
               /\ UNCHANGED exc
          ELSE /\ RaiseOuter(r, out)
               /\ UNCHANGED <<fs, created>>
    /\ UNCHANGED <<Data, result, failed, invoked, passed, msgs, env, lic, wrote>>

\* A variant that defers the project geodatabase to the later block.
CheckProject_deferred(r) ==
    /\ pc[r] = "proj_check"
    /\ Schedule(r)
    /\ NoLog /\ Goto(r, "validity")
    /\ UNCHANGED <<fs, Data, result, exc, failed, Hist, env, lic, wrote>>

\* A variant that holds back while another run is creating the project
\* geodatabase.
CheckProject_locked(r) ==
    /\ pc[r] = "proj_check"
    /\ Schedule(r)
    /\ IF Exists(fs, project_ws) \/ \E o \in Procs \ {r} : pc[o] = "proj_create"
       THEN NoLog /\ Goto(r, "validity")
       ELSE /\ Log(r, <<Msg("Creating new File Geodatabase")>>)
            /\ Goto(r, "proj_create")
    /\ UNCHANGED <<fs, Data, result, exc, failed, Hist, env, lic, wrote>>

\* Lines 80-81: if not arcpy.Exists(project_ws): AddMessage
CheckProject(r) ==
    /\ pc[r] = "proj_check"
    /\ Schedule(r)
    /\ IF Exists(fs, project_ws)
       THEN NoLog /\ Goto(r, "validity")
       ELSE /\ Log(r, <<Msg("Creating new File Geodatabase")>>)
            /\ Goto(r, "proj_create")
    /\ UNCHANGED <<fs, Data, result, exc, failed, Hist, env, lic, wrote>>

\* Line 82: arcpy.CreateFileGDB_management(output_directory, gdb_name)
CreateProject(r) ==
    /\ pc[r] = "proj_create"
    /\ Schedule(r)
    /\ \E out \in {"ok", "ExecuteError"} :
          IF out = "ok"
          THEN /\ fs' = CreateFileGDB(fs, project_ws)
               /\ created' = [created EXCEPT ![r] = @ \cup {project_ws}]
               /\ Goto(r, "validity")
               /\ UNCHANGED exc
          ELSE /\ RaiseOuter(r, out)
               /\ UNCHANGED <<fs, created>>
    /\ UNCHANGED <<Data, result, failed, invoked, passed, msgs, env, lic, wrote>>

\* A variant that leaves the scratch workspace as it found it.
CheckValidity_noScratch(r) ==
    /\ pc[r] = "validity"
    /\ Schedule(r)
    /\ \E describe \in {"ok", "raises"} :
          LET c == check_building_class_code(describe, desc.dataType)
          IN  IF ~c.ret
              THEN /\ Log(r, c.msgs \o <<Err("Invalid LAS dataset")>>)
                   /\ Return(r, "False")
                   /\ env' = [env EXCEPT ![r].workspace = project_ws]
                   /\ UNCHANGED <<fs, created>>
              ELSE /\ IF ~Exists(fs, project_ws)
                      THEN /\ Log(r, c.msgs \o <<Msg("Creating new File Geodatabase")>>)
                           /\ fs' = CreateFileGDB(fs, project_ws)
                           /\ created' = [created EXCEPT ![r] = @ \cup {project_ws}]
                      ELSE /\ Log(r, c.msgs)
                           /\ UNCHANGED <<fs, created>>
                   /\ env' = [env EXCEPT ![r].workspace = project_ws]
                   /\ Goto(r, "s1_begin")
                   /\ UNCHANGED result
    /\ UNCHANGED <<Data, exc, failed, invoked, passed, lic, wrote>>

\* Lines 85-102: workspace environments, check_building_class_code, and the
\* repeated "create geodatabase" block.
CheckValidity(r) ==
    /\ pc[r] = "validity"
    /\ Schedule(r)
    /\ \E describe \in {"ok", "raises"} :
          LET c == check_building_class_code(describe, desc.dataType)
          IN  IF ~c.ret
              THEN /\ Log(r, c.msgs \o <<Err("Invalid LAS dataset")>>)
                   /\ Return(r, "False")
                   /\ env' = [env EXCEPT ![r].workspace = project_ws,
                                         ![r].scratchWorkspace = intermediate_ws]
                   /\ UNCHANGED <<fs, created>>
              ELSE /\ IF ~Exists(fs, project_ws)
                      THEN /\ Log(r, c.msgs \o <<Msg("Creating new File Geodatabase")>>)
                           /\ fs' = CreateFileGDB(fs, project_ws)
                           /\ created' = [created EXCEPT ![r] = @ \cup {project_ws}]
                      ELSE /\ Log(r, c.msgs)
                           /\ UNCHANGED <<fs, created>>
                   /\ env' = [env EXCEPT ![r].workspace = project_ws,
                                         ![r].scratchWorkspace = intermediate_ws]
                   /\ Goto(r, "s1_begin")
                   /\ UNCHANGED result
    /\ UNCHANGED <<Data, exc, failed, invoked, passed, lic, wrote>>

\* Lines 345-351: the handlers around the whole of process_las_dataset.
OuterExcept(r) ==
    /\ pc[r] = "outer_except"
    /\ Schedule(r)
    /\ IF exc[r] = "ExecuteError"
       THEN Log(r, <<Err("ArcPy error in process:"), Err("GetMessages(2)")>>)
       ELSE Log(r, <<Err("An unexpected error occurred: " \o exc[r])>>)
    /\ exc' = [exc EXCEPT ![r] = "none"]
    /\ Return(r, "False")
    /\ UNCHANGED <<fs, Data, failed, Hist, env, lic, wrote>>

--------------------------------------------------------------------------
\* The six stages.  Each is three steps: the code before the external call
\* (import, messages, input checks), the call, and the output check.

\* An external routine of stage k is called: it may write or remove the
\* outputs it was asked for, and returns or raises.
CallRoutine(r, k, next) ==
    /\ invoked' = [invoked EXCEPT ![r] = @ \cup {k}]
    /\ \E made \in SUBSET Outputs(k), gone \in SUBSET Outputs(k),
          out \in {"returns"} \cup Exceptions :
          /\ made \cap gone = {}
          /\ fs' = RoutineEffect(fs, made, gone)
          /\ wrote' = [wrote EXCEPT ![r] = made]
          /\ IF out = "returns"
             THEN Goto(r, next) /\ UNCHANGED <<exc, failed>>
             ELSE RaiseInStage(r, k, out)

\* `from scripts.<module> import run`: succeeds or raises ImportError.
Imports == {"ok", "ImportError"}

\* ---- STEP 1: elevation extraction (lines 107-134)
Step1Begin(r) ==
    /\ pc[r] = "s1_begin"
    /\ Schedule(r)
    /\ \E imp \in Imports :
          IF imp # "ok"
          THEN RaiseInStage(r, 1, "Exception")
          ELSE Goto(r, "s1_run") /\ UNCHANGED <<exc, failed>>
    /\ UNCHANGED <<fs, Data, result, Hist, msgs, env, lic, wrote>>

Step1Run(r) ==
    /\ pc[r] = "s1_run"
    /\ Schedule(r)
    /\ CallRoutine(r, 1, "s1_check")
    /\ UNCHANGED <<Data, result, passed, created, msgs, env, lic>>

\* A variant that forgets the _ndsm raster.
ElevationOutputsExist_two(f) ==
    \A raster \in {"elev_dtm", "elev_dsm"} : Exists(f, raster)

\* Lines 127-130: every suffix must exist.
ElevationOutputsExist(f) ==
    \A raster \in {"elev_dtm", "elev_dsm", "elev_ndsm"} : Exists(f, raster)

Step1Check(r) ==
    /\ pc[r] = "s1_check"
    /\ Schedule(r)
    /\ IF ~ElevationOutputsExist(fs)
       THEN /\ RaiseInStage(r, 1, "Elevation raster not created")
            /\ UNCHANGED passed
       ELSE /\ passed' = [passed EXCEPT ![r] = @ \cup {1}]
            /\ Goto(r, "s2_begin")
            /\ UNCHANGED <<exc, failed>>
    /\ UNCHANGED <<fs, Data, result, invoked, created, msgs, env, lic, wrote>>

\* ---- STEP 2: building mosaic (lines 139-174)
\* A variant that sets the environment before it looks at the spatial
\* reference.
Step2Begin_envFirst(r) ==
    /\ pc[r] = "s2_begin"
    /\ Schedule(r)
    /\ \E imp \in Imports, describe \in {"ok", "raises"}, makedirs \in {"ok", "raises"} :
          IF imp # "ok" \/ describe = "raises"
          THEN /\ RaiseInStage(r, 2, "Exception")
               /\ UNCHANGED <<fs, msgs, env>>
          ELSE /\ env' = [env EXCEPT ![r].cellSize = "0.6 Meters",
                                     ![r].outputCoordinateSystem = desc.spatialReference]
               /\ IF desc.spatialReference = "None"
                  THEN /\ RaiseInStage(r, 2, "Could not obtain spatial reference from LAS dataset")
                       /\ UNCHANGED <<fs, msgs>>
                  ELSE /\ Log(r, <<Msg("Using spatial reference from LAS dataset")>>)
                       /\ IF Exists(fs, mosaic_folder)
                          THEN /\ makedirs = "ok"
                               /\ UNCHANGED fs
                               /\ Goto(r, "s2_run") /\ UNCHANGED <<exc, failed>>
                          ELSE IF makedirs = "ok"
                          THEN /\ fs' = fs \cup {mosaic_folder}
                               /\ Goto(r, "s2_run") /\ UNCHANGED <<exc, failed>>
                          ELSE /\ UNCHANGED fs
                               /\ RaiseInStage(r, 2, "Exception")
    /\ UNCHANGED <<Data, result, Hist, lic, wrote>>

\* Lines 139-153: import, spatial reference, environment, mosaic folder.
Step2Begin(r) ==
    /\ pc[r] = "s2_begin"
    /\ Schedule(r)
    /\ \E imp \in Imports, describe \in {"ok", "raises"}, makedirs \in {"ok", "raises"} :
          IF imp # "ok" \/ describe = "raises"
          THEN /\ RaiseInStage(r, 2, "Exception")
               /\ UNCHANGED <<fs, msgs, env>>
          ELSE IF desc.spatialReference = "None"
          THEN /\ RaiseInStage(r, 2, "Could not obtain spatial reference from LAS dataset")
               /\ UNCHANGED <<fs, msgs, env>>
          ELSE /\ Log(r, <<Msg("Using spatial reference from LAS dataset")>>)
               /\ env' = [env EXCEPT ![r].cellSize = "0.6 Meters",
                                     ![r].outputCoordinateSystem = desc.spatialReference]
               /\ IF Exists(fs, mosaic_folder)
                  THEN /\ makedirs = "ok"
                       /\ UNCHANGED fs
                       /\ Goto(r, "s2_run") /\ UNCHANGED <<exc, failed>>
                  ELSE IF makedirs = "ok"
                  THEN /\ fs' = fs \cup {mosaic_folder}
                       /\ Goto(r, "s2_run") /\ UNCHANGED <<exc, failed>>
                  ELSE /\ UNCHANGED fs
                       /\ RaiseInStage(r, 2, "Exception")
    /\ UNCHANGED <<Data, result, Hist, lic, wrote>>

Step2Run(r) ==
    /\ pc[r] = "s2_run"
    /\ Schedule(r)
    /\ CallRoutine(r, 2, "s2_check")
    /\ UNCHANGED <<Data, result, passed, created, msgs, env, lic>>

\* A variant that accepts the mosaic only when this run's routine wrote it.
Step2Check_fresh(r) ==
    /\ pc[r] = "s2_check"
    /\ Schedule(r)
    /\ IF ~(Exists(fs, "building_mosaic") /\ "building_mosaic" \in wrote[r])
       THEN /\ RaiseInStage(r, 2, "Building mosaic not created")
            /\ UNCHANGED passed
       ELSE /\ passed' = [passed EXCEPT ![r] = @ \cup {2}]
            /\ Goto(r, "s3_begin")
            /\ UNCHANGED <<exc, failed>>
    /\ UNCHANGED <<fs, Data, result, invoked, created, msgs, env, lic, wrote>>

\* Lines 169-170: if not arcpy.Exists(out_mosaic): raise ValueError
Step2Check(r) ==
    /\ pc[r] = "s2_check"
    /\ Schedule(r)
    /\ IF ~Exists(fs, "building_mosaic")
       THEN /\ RaiseInStage(r, 2, "Building mosaic not created")
            /\ UNCHANGED passed
       ELSE /\ passed' = [passed EXCEPT ![r] = @ \cup {2}]
            /\ Goto(r, "s3_begin")
            /\ UNCHANGED <<exc, failed>>
    /\ UNCHANGED <<fs, Data, result, invoked, created, msgs, env, lic, wrote>>

\* ---- STEP 3: focal statistics (lines 179-203)
Step3Begin(r) ==
    /\ pc[r] = "s3_begin"
    /\ Schedule(r)
    /\ Log(r, <<Msg("Running Focal Statistics...")>>)
    /\ IF ~Exists(fs, "building_mosaic")
       THEN RaiseInStage(r, 3, "Input raster for focal statistics does not exist")
       ELSE Goto(r, "s3_run") /\ UNCHANGED <<exc, failed>>
    /\ UNCHANGED <<fs, Data, result, Hist, env, lic, wrote>>

\* FocalStatistics(...) and focal_result.save(out_focal)
Step3Run(r) ==
    /\ pc[r] = "s3_run"
    /\ Schedule(r)
    /\ CallRoutine(r, 3, "s3_check")
    /\ UNCHANGED <<Data, result, passed, created, msgs, env, lic>>

Step3Check(r) ==
    /\ pc[r] = "s3_check"
    /\ Schedule(r)
    /\ IF ~Exists(fs, "focal_mosaic")
       THEN /\ RaiseInStage(r, 3, "Focal statistics output not created")
            /\ UNCHANGED <<passed, msgs>>
       ELSE /\ passed' = [passed EXCEPT ![r] = @ \cup {3}]
            /\ Log(r, <<Msg("Focal Statistics completed successfully")>>)
            /\ Goto(r, "s4_begin")
            /\ UNCHANGED <<exc, failed>>
    /\ UNCHANGED <<fs, Data, result, invoked, created, env, lic, wrote>>

\* ---- STEP 4: footprints from raster (lines 208-249)
Step4Begin(r) ==
    /\ pc[r] = "s4_begin"
    /\ Schedule(r)
    /\ \E imp \in Imports :
          IF imp # "ok"
          THEN RaiseInStage(r, 4, "Exception") /\ NoLog
          ELSE /\ Log(r, <<Msg("Creating footprints from raster...")>>)
               /\ IF ~Exists(fs, "focal_mosaic")
                  THEN RaiseInStage(r, 4, "Input focal raster does not exist")
                  ELSE Goto(r, "s4_run") /\ UNCHANGED <<exc, failed>>
    /\ UNCHANGED <<fs, Data, result, Hist, env, lic, wrote>>

Step4Run(r) ==
    /\ pc[r] = "s4_run"
    /\ Schedule(r)
    /\ CallRoutine(r, 4, "s4_check")
    /\ UNCHANGED <<Data, result, passed, created, msgs, env, lic>>

\* A variant that trusts the routine's return and skips the existence check.
Step4Check_unchecked(r) ==
    /\ pc[r] = "s4_check"
    /\ Schedule(r)
    /\ passed' = [passed EXCEPT ![r] = @ \cup {4}]
    /\ Log(r, <<Msg("Building footprints created successfully")>>)
    /\ Goto(r, "s5_begin")
    /\ UNCHANGED <<fs, Data, result, exc, failed, invoked, created, env, lic, wrote>>

Step4Check(r) ==
    /\ pc[r] = "s4_check"
    /\ Schedule(r)
    /\ IF ~Exists(fs, "final_footprints")
       THEN /\ RaiseInStage(r, 4, "Building footprints not created")
            /\ UNCHANGED <<passed, msgs>>
       ELSE /\ passed' = [passed EXCEPT ![r] = @ \cup {4}]
            /\ Log(r, <<Msg("Building footprints created successfully")>>)
            /\ Goto(r, "s5_begin")
            /\ UNCHANGED <<exc, failed>>
    /\ UNCHANGED <<fs, Data, result, invoked, created, env, lic, wrote>>

\* ---- STEP 5: roof segmentation (lines 254-292)
Step5Begin(r) ==
    /\ pc[r] = "s5_begin"
    /\ Schedule(r)
    /\ \E imp \in Imports, makedirs \in {"ok", "raises"} :
          IF imp # "ok"
          THEN RaiseInStage(r, 5, "Exception") /\ NoLog /\ UNCHANGED fs
          ELSE /\ Log(r, <<Msg("Starting roof segmentation process...")>>)
               /\ IF Exists(fs, roof_segments_folder)
                  THEN makedirs = "ok" /\ UNCHANGED fs
                  ELSE IF makedirs = "ok"
                  THEN fs' = fs \cup {roof_segments_folder}
                  ELSE UNCHANGED fs
               /\ IF makedirs = "raises"
                  THEN RaiseInStage(r, 5, "Exception")
                  ELSE IF ~Exists(fs, "elev_dsm")
                  THEN RaiseInStage(r, 5, "DSM raster does not exist")
                  ELSE Goto(r, "s5_run") /\ UNCHANGED <<exc, failed>>
    /\ UNCHANGED <<Data, result, Hist, env, lic, wrote>>

Step5Run(r) ==
    /\ pc[r] = "s5_run"
    /\ Schedule(r)
    /\ CallRoutine(r, 5, "s5_check")
    /\ UNCHANGED <<Data, result, passed, created, msgs, env, lic>>

\* Line 264: the name the segmentation routine is asked to write.
roof_segments == "roof_segments"

\* Line 284: the path the output check of stage 5 looks at.
segmented_output == roof_segments \o "_segmented"

\* Line 302: the path stage 6 reads its segmented roofs from.
segmented_roofs == "roof_segments_segmented"

\* A variant that checks the requested name instead of the derived one.
Step5Check_bare(r) ==
    /\ pc[r] = "s5_check"
    /\ Schedule(r)
    /\ IF ~Exists(fs, roof_segments)
       THEN /\ RaiseInStage(r, 5, "Roof segmentation failed")
            /\ UNCHANGED <<passed, msgs>>
       ELSE /\ passed' = [passed EXCEPT ![r] = @ \cup {5}]
            /\ Log(r, <<Msg("Roof segmentation completed successfully")>>)
            /\ Goto(r, "s6_begin")
            /\ UNCHANGED <<exc, failed>>
    /\ UNCHANGED <<fs, Data, result, invoked, created, env, lic, wrote>>

\* Lines 284-288: segmented_output = roof_segments + "_segmented"
Step5Check(r) ==
    /\ pc[r] = "s5_check"
    /\ Schedule(r)
    /\ IF ~Exists(fs, segmented_output)
       THEN /\ RaiseInStage(r, 5, "Roof segmentation failed")
            /\ UNCHANGED <<passed, msgs>>
       ELSE /\ passed' = [passed EXCEPT ![r] = @ \cup {5}]
            /\ Log(r, <<Msg("Roof segmentation completed successfully")>>)
            /\ Goto(r, "s6_begin")
            /\ UNCHANGED <<exc, failed>>
    /\ UNCHANGED <<fs, Data, result, invoked, created, env, lic, wrote>>

\* ---- STEP 6: roof forms (lines 297-342)
Step6Begin(r) ==
    /\ pc[r] = "s6_begin"
    /\ Schedule(r)
    /\ \E imp \in Imports :
          IF imp # "ok"
          THEN RaiseInStage(r, 6, "Exception") /\ NoLog
          ELSE /\ Log(r, <<Msg("Starting roof form extraction...")>>)
               /\ IF ~Exists(fs, segmented_roofs)
                  THEN RaiseInStage(r, 6, "Segmented roofs file not found")
                  ELSE IF ~Exists(fs, "elev_dsm")
                  THEN RaiseInStage(r, 6, "DSM file not found")
                  ELSE IF ~Exists(fs, "elev_dtm")
                  THEN RaiseInStage(r, 6, "DTM file not found")
                  ELSE IF ~Exists(fs, "elev_ndsm")
                  THEN RaiseInStage(r, 6, "nDSM file not found")
                  ELSE Goto(r, "s6_run") /\ UNCHANGED <<exc, failed>>
    /\ UNCHANGED <<fs, Data, result, Hist, env, lic, wrote>>

Step6Run(r) ==
    /\ pc[r] = "s6_run"
    /\ Schedule(r)
    /\ CallRoutine(r, 6, "s6_check")
    /\ UNCHANGED <<Data, result, passed, created, msgs, env, lic>>

\* Lines 334-338: validate_roof_forms, success message, return True.
Step6Check(r) ==
    /\ pc[r] = "s6_check"
    /\ Schedule(r)
    /\ LET v == validate_roof_forms(fs)
       IN  IF ~v.ret
           THEN /\ RaiseInStage(r, 6, "Roof form extraction failed")
                /\ UNCHANGED <<passed, msgs, result>>
           ELSE /\ passed' = [passed EXCEPT ![r] = @ \cup {6}]
                /\ Log(r, v.msgs \o <<Msg("Roof form extraction completed successfully")>>)
                /\ Return(r, "True")
                /\ UNCHANGED <<exc, failed>>
    /\ UNCHANGED <<fs, Data, invoked, created, env, lic, wrote>>

\* A variant that rolls back: the failed run's artifacts are removed.
StageExcept_cleanup(r) ==
    /\ pc[r] = "stage_except"
    /\ Schedule(r)
    /\ Log(r, <<Err("Error in " \o StageName(failed[r]) \o ": " \o exc[r])>>)
    /\ exc' = [exc EXCEPT ![r] = "none"]
    /\ fs' = fs \ Artifacts
    /\ Return(r, "False")
    /\ UNCHANGED <<Data, failed, Hist, env, lic, wrote>>

BeginPc(k) ==
    CASE k = 1 -> "s1_begin" [] k = 2 -> "s2_begin" [] k = 3 -> "s3_begin"
      [] k = 4 -> "s4_begin" [] k = 5 -> "s5_begin" [] k = 6 -> "s6_begin"

\* A variant that reports the error and carries on with the next stage.
StageExcept_continue(r) ==
    /\ pc[r] = "stage_except"
    /\ Schedule(r)
    /\ Log(r, <<Err("Error in " \o StageName(failed[r]) \o ": " \o exc[r])>>)
    /\ exc' = [exc EXCEPT ![r] = "none"]
    /\ IF failed[r] < 6
       THEN Goto(r, BeginPc(failed[r] + 1)) /\ UNCHANGED result
       ELSE Return(r, "False")
    /\ UNCHANGED <<fs, Data, failed, Hist, env, lic, wrote>>

\* The `except Exception as e` clause of the stage that raised:
\* AddError("Error in <stage>: <e>"), return False.  Nothing is cleaned up.
StageExcept(r) ==
    /\ pc[r] = "stage_except"
    /\ Schedule(r)
    /\ Log(r, <<Err("Error in " \o StageName(failed[r]) \o ": " \o exc[r])>>)
    /\ exc' = [exc EXCEPT ![r] = "none"]
    /\ Return(r, "False")
    /\ UNCHANGED <<fs, Data, failed, Hist, env, lic, wrote>>

--------------------------------------------------------------------------
\* One step of invocation r.
Step(r) ==
    \/ isLicensed(r)
    \/ execute(r)
    \/ ValidateInputs(r)
    \/ CheckIntermediate(r)
    \/ CreateIntermediate(r)
    \/ CheckProject(r)
    \/ CreateProject(r)
    \/ CheckValidity(r)
    \/ OuterExcept(r)
    \/ Step1Begin(r) \/ Step1Run(r) \/ Step1Check(r)
    \/ Step2Begin(r) \/ Step2Run(r) \/ Step2Check(r)
    \/ Step3Begin(r) \/ Step3Run(r) \/ Step3Check(r)
    \/ Step4Begin(r) \/ Step4Run(r) \/ Step4Check(r)
    \/ Step5Begin(r) \/ Step5Run(r) \/ Step5Check(r)
    \/ Step6Begin(r) \/ Step6Run(r) \/ Step6Check(r)
    \/ StageExcept(r)
    \/ executeReport(r)
    \/ executeExcept(r)
    \/ executeFinally(r)
    \/ Rerun(r)

\* The tool is run by one process, again and again (the pipeline is
\* strictly sequential; one run per project name at a time).
Next == Step(1)

Spec == Init /\ [][Next]_vars

\* One step of invocation r when each process invokes the tool once.
RunStep(r) ==
    \/ isLicensed(r)
    \/ execute(r)
    \/ ValidateInputs(r)
    \/ CheckIntermediate(r)
    \/ CreateIntermediate(r)
    \/ CheckProject(r)
    \/ CreateProject(r)
    \/ CheckValidity(r)
    \/ OuterExcept(r)
    \/ Step1Begin(r) \/ Step1Run(r) \/ Step1Check(r)
    \/ Step2Begin(r) \/ Step2Run(r) \/ Step2Check(r)
    \/ Step3Begin(r) \/ Step3Run(r) \/ Step3Check(r)
    \/ Step4Begin(r) \/ Step4Run(r) \/ Step4Check(r)
    \/ Step5Begin(r) \/ Step5Run(r) \/ Step5Check(r)
    \/ Step6Begin(r) \/ Step6Run(r) \/ Step6Check(r)
    \/ StageExcept(r)
    \/ executeReport(r)
    \/ executeExcept(r)
    \/ executeFinally(r)

\* Two invocations of the tool on the same dataset and output directory,
\* in separate processes, with nothing to order their steps.
NextConc == \E r \in Procs : RunStep(r)

\* Concurrent invocations start from valid inputs.
InitConc ==
    /\ Init
    /\ fs = {las_dataset_path, home_directory, output_directory}
    /\ desc = [dataType |-> "LasDataset", spatialReference |-> "SR"]

SpecConc == InitConc /\ [][NextConc]_vars

--------------------------------------------------------------------------
\* Vocabulary of the properties.

InLog(r, m) == \E i \in DOMAIN msgs[r] : msgs[r][i] = m

RunPc(k) ==
    CASE k = 1 -> "s1_run" [] k = 2 -> "s2_run" [] k = 3 -> "s3_run"
      [] k = 4 -> "s4_run" [] k = 5 -> "s5_run" [] k = 6 -> "s6_run"

CheckPc(k) ==
    CASE k = 1 -> "s1_check" [] k = 2 -> "s2_check" [] k = 3 -> "s3_check"
      [] k = 4 -> "s4_check" [] k = 5 -> "s5_check" [] k = 6 -> "s6_check"

\* Positions inside the six stages.
StagePcs == {BeginPc(k) : k \in Stages} \cup {RunPc(k) : k \in Stages}
              \cup {CheckPc(k) : k \in Stages} \cup {"stage_except"}

\* process_las_dataset has returned v to execute.
Returned(r, v) == pc[r] \in {"report", "finally", "finished"} /\ result[r] = v

\* The outputs stage k declares are present.
DeclaredOutputsExist(k, f) ==
    CASE k = 1 -> {"elev_dtm", "elev_dsm", "elev_ndsm"} \subseteq f
      [] k = 2 -> "building_mosaic" \in f
      [] k = 3 -> "focal_mosaic" \in f
      [] k = 4 -> "final_footprints" \in f
      [] k = 5 -> "roof_segments_segmented" \in f
      [] k = 6 -> "roof_forms" \in f \/ "roof_forms_roofform" \in f

ValidInputs(f) == {las_dataset_path, home_directory, output_directory} \subseteq f

--------------------------------------------------------------------------
\* C1: the six stages run strictly in order: the routine of stage k has been
\* invoked only if every earlier stage has been invoked and has passed its
\* output check in this run; once a stage has failed, no later stage's
\* routine is invoked and the run returns False.
C1_StagesInOrder ==
    \A r \in Procs :
       /\ \A k \in invoked[r] : \A j \in 1..(k - 1) : j \in invoked[r] /\ j \in passed[r]
       /\ failed[r] # 0 =>
             /\ invoked[r] \subseteq 1..failed[r]
             /\ passed[r] = 1..(failed[r] - 1)
             /\ \/ pc[r] = "stage_except" /\ result[r] = "none"
                \/ Returned(r, "False")

\* Stage 4 failed in a run that went through stages 1 to 3 and has ended.
C1_Witness ==
    /\ pc[1] = "finished" /\ result[1] = "False"
    /\ failed[1] = 4 /\ invoked[1] = {1, 2, 3, 4} /\ passed[1] = {1, 2, 3}

\* C2: the existence of the declared output is the authoritative success
\* criterion: when the output check of stage k runs and a declared output is
\* absent, the stage fails (whatever the routine reported), and a failed
\* stage ends the run with False.  For elevation, any one of the three
\* rasters missing fails the stage and stages 2 to 6 never run.
C2_ExistenceAuthoritative ==
    /\ [][\A r \in Procs, k \in Stages :
            (pc[r] = CheckPc(k) /\ pc'[r] # pc[r] /\ ~DeclaredOutputsExist(k, fs))
               => /\ pc'[r] = "stage_except" /\ failed'[r] = k
                  /\ k \notin passed'[r]]_vars
    /\ [](\A r \in Procs :
            /\ failed[r] = 1 => invoked[r] \subseteq {1} /\ passed[r] = {}
            /\ (failed[r] # 0 /\ pc[r] \in {"report", "finally", "finished"})
                  => result[r] = "False")

\* The elevation routine returned, _dtm and _dsm exist, _ndsm does not:
\* the run ended False with only stage 1 invoked.
C2_Witness ==
    /\ Returned(1, "False") /\ failed[1] = 1 /\ invoked[1] = {1}
    /\ InLog(1, Err("Error in elevation extraction: Elevation raster not created"))
    /\ "elev_dtm" \in fs /\ "elev_dsm" \in fs /\ "elev_ndsm" \notin fs

\* C3: whenever a run has returned True, all eight persisted artifacts
\* exist in the project container.
C3_SuccessHasAllArtifacts ==
    \A r \in Procs :
       Returned(r, "True") =>
          /\ project_ws \in fs
          /\ {"elev_dtm", "elev_dsm", "elev_ndsm", "building_mosaic", "focal_mosaic",
              "final_footprints", "roof_segments_segmented"} \subseteq fs
          /\ "roof_forms" \in fs \/ "roof_forms_roofform" \in fs

C3_Witness == pc[1] = "report" /\ result[1] = "True" /\ passed[1] = Stages

\* C4: with the dataset, the home directory or the output directory
\* missing, process_las_dataset reports an error and returns False before
\* any workspace is created and before any stage routine is invoked.
C4_InvalidInputsAbortEarly ==
    \A r \in Procs :
       ~ValidInputs(fs) =>
          /\ pc[r] \in {"idle", "unlicensed", "execute", "execute_except", "validate",
                        "report", "finally", "finished"}
          /\ created[r] = {} /\ Workspaces \cap fs = {}
          /\ invoked[r] = {} /\ failed[r] = 0
          /\ pc[r] = "report" =>
                /\ result[r] = "False"
                /\ Len(msgs[r]) = 1 /\ msgs[r][1][1] = "error"

C4_Witness ==
    /\ pc[1] = "report" /\ result[1] = "False"
    /\ las_dataset_path \in fs /\ home_directory \in fs /\ output_directory \notin fs

TypeError(r)       == InLog(r, Err("Input is not a valid LAS dataset"))
DescribeWarning(r) == InLog(r, Warn("Error checking LAS dataset"))

\* C5 as claimed: a dataset of the wrong kind is logged as an error but the
\* run is not aborted, and the pipeline proceeds to stage 1.
C5_WrongTypeIsAdvisory ==
    \A r \in Procs :
       (TypeError(r) /\ pc[r] \in {"report", "finally", "finished"})
          => (1 \in invoked[r] \/ failed[r] = 1)

\* C5, amended: a dataset of the wrong kind whose description can be read
\* is fatal: the wrong type is logged as an error, the run is aborted with
\* False before stage 1, and no stage routine is invoked.  A dataset of the
\* wrong kind gets into the stages only when reading its description raised.
C5_WrongTypeIsFatal ==
    \A r \in Procs :
       /\ TypeError(r) =>
             /\ Returned(r, "False")
             /\ InLog(r, Err("Invalid LAS dataset"))
             /\ invoked[r] = {} /\ passed[r] = {} /\ failed[r] = 0
       /\ (desc.dataType # "LasDataset" /\ (pc[r] \in StagePcs \/ invoked[r] # {}))
             => DescribeWarning(r)

C5_Witness ==
    /\ desc.dataType = "Other" /\ TypeError(1)
    /\ pc[1] = "report" /\ result[1] = "False"

\* C6 as claimed: every validation check, the dataset type check included,
\* is decided before a workspace is created: a run that aborts on a
\* validation failure has created neither workspace.
C6_ValidationBeforeWorkspaces ==
    \A r \in Procs :
       (Returned(r, "False") /\ invoked[r] = {} /\ failed[r] = 0
          /\ (~ValidInputs(fs) \/ TypeError(r)))
          => created[r] = {}

\* C6, amended: the three existence checks are decided before any workspace
\* is created, and a run that aborts on one of them has created neither
\* workspace.  The dataset type check is decided after the workspaces are
\* set up: when a run aborts on it, both workspaces exist (created by this
\* run where they were absent) and are the run's active and scratch
\* workspaces.  The type check itself changes no workspace.
C6_TypeCheckAfterWorkspaces ==
    /\ [](\A r \in Procs :
            /\ (Returned(r, "False") /\ ~ValidInputs(fs)) => created[r] = {}
            /\ TypeError(r) =>
                  /\ Workspaces \subseteq fs
                  /\ env[r].workspace = project_ws
                  /\ env[r].scratchWorkspace = intermediate_ws)
    /\ [][\A r \in Procs :
            (pc[r] = "validity" /\ TypeError(r)')
               => (fs' = fs /\ created'[r] = created[r])]_vars

\* A first run on an empty output directory aborts on the type check,
\* having created both workspaces.
C6_Witness ==
    /\ runNo[1] = 1 /\ TypeError(1) /\ pc[1] = "report" /\ result[1] = "False"
    /\ created[1] = Workspaces

\* C7: when reading the dataset's description or counts raises, the failure
\* is downgraded to a warning, validation passes and the run continues to
\* stage 1 instead of aborting.
C7_DescribeFailureIsLenient ==
    /\ [](\A r \in Procs :
            DescribeWarning(r) =>
               /\ InLog(r, Msg("Continuing processing despite validation check failure..."))
               /\ ~InLog(r, Err("Invalid LAS dataset"))
               /\ \/ pc[r] \in StagePcs
                  \/ pc[r] \in {"report", "finally", "finished"}
                       /\ (failed[r] \in Stages \/ result[r] = "True"))
    /\ [][\A r \in Procs :
            (pc[r] = "validity" /\ DescribeWarning(r)') => pc'[r] = "s1_begin"]_vars

\* Describe raised on a dataset of the wrong kind and stage 1 ran.
C7_Witness ==
    /\ DescribeWarning(1) /\ desc.dataType = "Other" /\ 1 \in invoked[1]

\* C8: a failure at stage k rolls nothing back: the exception handlers leave
\* the file system as it is, and when the run has returned False both
\* workspaces, the outputs of the completed stages 1..k-1 and (from stage 3
\* on) the mosaic folder still exist.
C8_NoRollback ==
    /\ [][\A r \in Procs :
            (pc[r] \in {"stage_except", "outer_except"} /\ pc'[r] # pc[r]) => fs' = fs]_vars
    /\ [](\A r \in Procs :
            (Returned(r, "False") /\ failed[r] # 0) =>
               /\ Workspaces \subseteq fs
               /\ \A j \in 1..(failed[r] - 1) : DeclaredOutputsExist(j, fs)
               /\ failed[r] > 2 => mosaic_folder \in fs)

\* Stage 5 failed; the run has returned False.
C8_Witness ==
    /\ pc[1] = "report" /\ result[1] = "False" /\ failed[1] = 5
    /\ passed[1] = {1, 2, 3, 4}

\* Positions between isLicensed answering True and the finally clause.
ExecutePcs == {"execute", "execute_except", "validate", "int_check", "int_create",
               "proj_check", "proj_create", "validity", "outer_except", "report",
               "finally"} \cup StagePcs

C10_EitherRoofFormName ==
    [][\A r \in Procs :
         (pc[r] = "s6_check" /\ pc'[r] # pc[r]) =>
            IF "roof_forms" \in fs \/ "roof_forms_roofform" \in fs
            THEN /\ 6 \in passed'[r] /\ result'[r] = "True" /\ pc'[r] = "report"
                 /\ failed'[r] = 0
            ELSE /\ 6 \notin passed'[r] /\ failed'[r] = 6 /\ pc'[r] = "stage_except"
                 /\ exc'[r] = "Roof form extraction failed"]_vars

\* Stage 6 succeeded on roof_forms_roofform alone.
C10_Witness ==
    /\ pc[1] = "report" /\ result[1] = "True" /\ 6 \in passed[1]
    /\ "roof_forms" \notin fs /\ "roof_forms_roofform" \in fs

\* C11: the output check of stage 5 looks at roof_segments_segmented only:
\* stage 5 succeeds exactly when that path exists after the routine has
\* returned, whether or not the bare roof_segments exists, and the path
\* stage 6 reads its segmented roofs from is the path stage 5 checked.
C11_SegmentedPathOnly ==
    /\ [][\A r \in Procs :
            (pc[r] = "s5_check" /\ pc'[r] # pc[r]) =>
               IF "roof_segments_segmented" \in fs
               THEN 5 \in passed'[r] /\ pc'[r] = "s6_begin" /\ failed'[r] = 0
               ELSE /\ 5 \notin passed'[r] /\ failed'[r] = 5 /\ pc'[r] = "stage_except"
                    /\ exc'[r] = "Roof segmentation failed"]_vars
    /\ [][\A r \in Procs :
            (pc[r] = "s6_begin" /\ pc'[r] = "s6_run") => "roof_segments_segmented" \in fs]_vars
    /\ [](segmented_roofs = segmented_output)

\* The routine left the bare roof_segments but no roof_segments_segmented:
\* stage 5 failed.
C11_Witness ==
    /\ Returned(1, "False") /\ failed[1] = 5
    /\ InLog(1, Err("Error in roof segmentation: Roof segmentation failed"))
    /\ "roof_segments" \in fs /\ "roof_segments_segmented" \notin fs

\* The artifacts stage k needs from the stages before it.
Predecessors(k) ==
    CASE k = 3 -> {"building_mosaic"}
      [] k = 4 -> {"focal_mosaic"}
      [] k = 5 -> {"final_footprints", "elev_dsm"}
      [] k = 6 -> {"roof_segments_segmented", "elev_dsm", "elev_dtm", "elev_ndsm"}

\* C12: for every stage, when a required predecessor artifact is absent as
\* the stage begins, the stage fails there: the failure names that stage,
\* its routine is not invoked and no later stage is attempted.
C12_MissingPredecessorFailsStage ==
    [][\A r \in Procs, k \in 3..6 :
         (pc[r] = BeginPc(k) /\ pc'[r] # pc[r] /\ ~(Predecessors(k) \subseteq fs))
            => /\ pc'[r] = "stage_except" /\ failed'[r] = k
               /\ invoked'[r] = invoked[r]]_vars

--------------------------------------------------------------------------
\* C13: when the dataset carries no spatial reference, the building-mosaic
\* stage fails before its routine is called: leaving the start of stage 2
\* raises inside stage 2 with the file system and the environment untouched;
\* no routine of stages 2 to 6 is ever invoked, no building_mosaic exists,
\* cell size and output coordinate system keep their values, no position of
\* stages 3 to 6 is reached, and a run that got as far as stage 2 returns
\* False with a building-mosaic error in its log (the missing spatial
\* reference, or an import or Describe failure that struck first).
C13_NoSpatialReferenceFailsMosaic ==
    /\ [](desc.spatialReference = "None" =>
            \A r \in Procs :
               /\ invoked[r] \cap (2..6) = {}
               /\ ~Exists(fs, "building_mosaic")
               /\ env[r].cellSize = EnvInit.cellSize
               /\ env[r].outputCoordinateSystem = EnvInit.outputCoordinateSystem
               /\ pc[r] \notin {RunPc(k) : k \in 2..6} \cup {CheckPc(k) : k \in 2..6}
                                \cup {BeginPc(k) : k \in 3..6}
               /\ (1 \in passed[r] /\ pc[r] \in {"report", "finally", "finished"})
                     => /\ result[r] = "False"
                        /\ failed[r] = 2
                        /\ \E e \in {"Could not obtain spatial reference from LAS dataset",
                                     "Exception"} :
                              InLog(r, Err("Error in " \o StageName(2) \o ": " \o e)))
    /\ [][\A r \in Procs :
            (desc.spatialReference = "None" /\ pc[r] = "s2_begin" /\ pc'[r] # pc[r])
               => /\ pc'[r] = "stage_except"
                  /\ failed'[r] = 2
                  /\ exc'[r] \in {"Could not obtain spatial reference from LAS dataset",
                                  "Exception"}
                  /\ fs' = fs
                  /\ env' = env]_vars

\* A run on a dataset without spatial reference has passed stage 1 and ended.
C13_Witness ==
    /\ desc.spatialReference = "None"
    /\ pc[1] = "finished"
    /\ 1 \in passed[1]
    /\ result[1] = "False"
    /\ exc[1] = "none"
    /\ InLog(1, Err("Error in " \o StageName(2) \o
                ": Could not obtain spatial reference from LAS dataset"))

--------------------------------------------------------------------------
\* C14: every stage is isolated.  A step taken inside stage k leads to stage
\* k's next position, to the next stage, to the return of True (stage 6) or
\* to stage k's own except clause with the exception recorded for stage k,
\* never to the outer handlers or to execute's handlers; the except clause
\* appends exactly "Error in <stage k>: <exception>" and returns False; so
\* the stages are left only by a return of True or False.
StageOfPc(p) == CHOOSE k \in Stages : p \in {BeginPc(k), RunPc(k), CheckPc(k)}

C14_StagesIsolated ==
    [][\A r \in Procs :
         /\ (pc[r] \in StagePcs /\ pc'[r] # pc[r])
               => /\ pc'[r] \in StagePcs \cup {"report"}
                  /\ pc'[r] = "report" => result'[r] \in {"True", "False"}
         /\ (pc[r] \in StagePcs \ {"stage_except"} /\ pc'[r] = "stage_except")
               => /\ failed'[r] = StageOfPc(pc[r])
                  /\ exc'[r] # "none"
         /\ (pc[r] = "stage_except" /\ pc'[r] # pc[r])
               => /\ pc'[r] = "report"
                  /\ result'[r] = "False"
                  /\ msgs'[r] = Append(msgs[r],
                        Err("Error in " \o StageName(failed[r]) \o ": " \o exc[r]))
                  /\ exc'[r] = "none"]_vars

\* The focal-statistics routine raised arcpy.ExecuteError, and the run ended
\* with the stage's own report.
C14_Witness ==
    /\ pc[1] = "finished"
    /\ result[1] = "False"
    /\ failed[1] = 3
    /\ 3 \in invoked[1]
    /\ InLog(1, Err("Error in " \o StageName(3) \o ": ExecuteError"))
    /\ ~InLog(1, Err("ArcPy error in process:"))

--------------------------------------------------------------------------
\* The progress messages process_las_dataset emits at the success of a stage
\* (lines 199, 245, 288, 337) and before a stage's routine runs (lines 146,
\* 180, 211, 257, 300).  "Building footprints created successfully" and
\* "Using spatial reference ..." are counted although they are worded
\* differently.
StageSuccessLines ==
    {Msg("Focal Statistics completed successfully"),
     Msg("Building footprints created successfully"),
     Msg("Roof segmentation completed successfully"),
     Msg("Roof form extraction completed successfully")}

StageStartLines ==
    {Msg("Using spatial reference from LAS dataset"),
     Msg("Running Focal Statistics..."),
     Msg("Creating footprints from raster..."),
     Msg("Starting roof segmentation process..."),
     Msg("Starting roof form extraction...")}

LinesIn(r, lines) == {i \in DOMAIN msgs[r] : msgs[r][i] \in lines}

\* C15: when all six stages succeed, the run returns True (the terminal
\* message is the success message) and the log holds one stage-level success
\* line and one start message for each of the six stages.
C15_SuccessLinePerStage ==
    \A r \in Procs :
       (Returned(r, "True") /\ pc[r] = "finished")
          => /\ passed[r] = Stages
             /\ InLog(r, Msg("Processing completed successfully"))
             /\ Cardinality(LinesIn(r, StageSuccessLines)) = 6
             /\ Cardinality(LinesIn(r, StageStartLines)) = 6

--------------------------------------------------------------------------
\* C16: every invocation of execute ends its log with exactly one terminal
\* message, which is the last line of the log: the success message when
\* process_las_dataset returned True, the failure message when it returned
\* False (never both, and neither before execute reports), and, when
\* execute raised before calling process_las_dataset, the single error
\* message of execute's handler.
SuccessMessage == Msg("Processing completed successfully")
FailureMessage == Err("Processing failed - check messages above")

Last(q) == q[Len(q)]

C16_OneTerminalMessage ==
    \A r \in Procs :
       LET nSuccess == Cardinality(LinesIn(r, {SuccessMessage}))
           nFailure == Cardinality(LinesIn(r, {FailureMessage}))
       IN  IF pc[r] \in {"finally", "finished"}
           THEN /\ msgs[r] # <<>>
                /\ result[r] = "True"
                      => Last(msgs[r]) = SuccessMessage /\ nSuccess = 1 /\ nFailure = 0
                /\ result[r] = "False"
                      => Last(msgs[r]) = FailureMessage /\ nFailure = 1 /\ nSuccess = 0
                /\ result[r] = "none"
                      => /\ Len(msgs[r]) = 1
                         /\ msgs[r][1] \in {Err("An unexpected error occurred: Exception"),
                                            Err("GetMessages(2)")}
           ELSE nSuccess = 0 /\ nFailure = 0

\* A second invocation that succeeded after a first that failed: its log
\* holds stage messages and ends in the success message.
C16_Witness ==
    /\ pc[1] = "finished"
    /\ runNo[1] = 2
    /\ prevResult = "False"
    /\ result[1] = "True"
    /\ Len(msgs[1]) > 1
    /\ Last(msgs[1]) = SuccessMessage
    /\ msgs[1][Len(msgs[1]) - 1] = Msg("Roof form extraction completed successfully")

--------------------------------------------------------------------------
\* The paths whose presence after a successful run is left to the routines:
\* the unsegmented by-product of roof segmentation and the two names under
\* which roof forms are accepted.
RoutineDecided == {roof_segments} \cup {possible_names[i] : i \in DOMAIN possible_names}

\* A run has returned True, and so had the run before it.
BothRunsSucceeded(r) ==
    runNo[r] >= 2 /\ prevResult = "True" /\ Returned(r, "True")

\* C17, as stated: after two successful runs in sequence the set of paths is
\* the same as after the first, and the second run created no workspace.
C17_SameArtifactSet ==
    \A r \in Procs :
       BothRunsSucceeded(r) => fs = prevFs /\ created[r] = {}

\* C17, amended: after two successful runs in sequence the second run has
\* created no workspace, and the paths after the second run are those after
\* the first except possibly the routine-decided ones; both workspaces and
\* every declared output exist after either run.
C17_SameCheckedLayout ==
    \A r \in Procs :
       BothRunsSucceeded(r)
          => /\ created[r] = {}
             /\ fs \ RoutineDecided = prevFs \ RoutineDecided
             /\ Workspaces \subseteq fs
             /\ \A k \in Stages : DeclaredOutputsExist(k, fs) /\ DeclaredOutputsExist(k, prevFs)

\* Two successful runs in sequence, the second leaving a different set of
\* paths than the first.
C17_Witness ==
    /\ BothRunsSucceeded(1)
    /\ pc[1] = "finished"
    /\ passed[1] = Stages
    /\ created[1] = {}
    /\ fs # prevFs

--------------------------------------------------------------------------
\* C18: concurrent runs are unguarded.  Whatever the other run is doing, a
\* run that finds the project workspace absent goes on to create it, the
\* creation is carried out even when the other run has created it in the
\* meantime, and an output check passes exactly when the declared outputs
\* are present, whoever wrote them.  The witness is an interleaving in which
\* both runs saw the project workspace absent and both created it, and in
\* which a run passed the check of stage 1 although its own routine wrote
\* nothing.
C18_ConcurrentRunsUnguarded ==
    [][\A r \in Procs :
         /\ (pc[r] = "proj_check" /\ pc'[r] # pc[r])
               => (pc'[r] = "proj_create" <=> ~Exists(fs, project_ws))
         /\ (pc[r] = "proj_create" /\ pc'[r] = "validity")
               => /\ fs' = CreateFileGDB(fs, project_ws)
                  /\ project_ws \in created'[r]
         /\ \A k \in Stages :
               (pc[r] = CheckPc(k) /\ pc'[r] # pc[r])
                  => (k \in passed'[r] <=> DeclaredOutputsExist(k, fs))]_vars

C18_Witness ==
    /\ project_ws \in created[1]
    /\ project_ws \in created[2]
    /\ InLog(1, Msg("Creating new File Geodatabase"))
    /\ InLog(2, Msg("Creating new File Geodatabase"))
    /\ pc[2] = "s2_begin"
    /\ 1 \in passed[2]
    /\ wrote[2] = {}
    /\ wrote[1] = Outputs(1)

--------------------------------------------------------------------------
\* C19: an existence check does not tell this run's artifacts from those an
\* earlier run left behind.  When the routine of stage k has returned having
\* written none of the stage's outputs and the declared outputs are present
\* all the same, the check passes and the run proceeds to the next stage
\* (to the return of True after stage 6).
C19_StaleArtifactsPass ==
    [][\A r \in Procs, k \in Stages :
         (/\ pc[r] = CheckPc(k)
          /\ pc'[r] # pc[r]
          /\ wrote[r] \cap Outputs(k) = {}
          /\ DeclaredOutputsExist(k, fs))
            => /\ k \in passed'[r]
               /\ fs' = fs
               /\ IF k < 6
                  THEN pc'[r] = BeginPc(k + 1)
                  ELSE pc'[r] = "report" /\ result'[r] = "True"]_vars

\* The first run failed in the building-mosaic stage and left a mosaic; in
\* the second run the routine wrote nothing and the stage passed.
C19_Witness ==
    /\ runNo[1] = 2
    /\ prevResult = "False"
    /\ Exists(prevFs, "building_mosaic")
    /\ ~Exists(prevFs, "focal_mosaic")
    /\ pc[1] = "s3_begin"
    /\ 2 \in passed[1]
    /\ wrote[1] = {}

--------------------------------------------------------------------------
\* C20: at the invocation of every stage's routine the active workspace is
\* the project workspace and the scratch workspace is the Intermediate
\* workspace; at the invocation of the routines of stages 2 to 6 the cell
\* size is "0.6 Meters" and the output coordinate system is the dataset's
\* spatial reference; and from the invocation of stage 2's routine to the
\* end of the stages no step of the run changes the environment.
AfterMosaicSetup ==
    {RunPc(k) : k \in 2..6} \cup {CheckPc(k) : k \in 2..6} \cup {BeginPc(k) : k \in 3..6}

C20_AmbientSettingsHold ==
    /\ [](\A r \in Procs, k \in Stages :
            pc[r] = RunPc(k)
               => /\ env[r].workspace = project_ws
                  /\ env[r].scratchWorkspace = intermediate_ws
                  /\ k >= 2 => /\ env[r].cellSize = "0.6 Meters"
                               /\ env[r].outputCoordinateSystem = desc.spatialReference
                               /\ desc.spatialReference # "None")
    /\ [][\A r \in Procs : pc[r] \in AfterMosaicSetup => env'[r] = env[r]]_vars

\* The routine of the last stage is about to be invoked under the settings
\* made before stage 1 and in stage 2.
C20_Witness ==
    /\ pc[1] = "s6_run"
    /\ env[1] = [overwriteOutput |-> TRUE, workspace |-> project_ws,
                 scratchWorkspace |-> intermediate_ws, cellSize |-> "0.6 Meters",
                 outputCoordinateSystem |-> "SR"]
    /\ desc.spatialReference = "SR"

==============================================================================
